---------------------------- MODULE Spec2Model ----------------------------
(***************************************************************************)
(* Model of the cis2_dsid contract: a ledger of token types, each with a   *)
(* metadata URL and, per holder account, an amount that is valid until an  *)
(* expiry instant.  The entry points add / mint / remove mutate the        *)
(* ledger; balanceOf / expiryOf / tokenMetadata read it.                   *)
(*                                                                         *)
(* A StateMap is modelled as a function whose DOMAIN is the set of keys    *)
(* present.  An Option is the empty tuple (None) or a one-element tuple    *)
(* (Some).  A ContractResult is a record with a field result that is "Ok"  *)
(* or the name of the error.                                               *)
(*                                                                         *)
(* The variable tokens is host.state_mut() as the entry point leaves it    *)
(* when it returns; logger content and return value are kept in last until *)
(* the host hands them to the caller (Return).                             *)
(***************************************************************************)
EXTENDS Integers, Sequences, FiniteSets, TLC

VARIABLES tokens, now, last

vars == <<tokens, now, last>>

---------------------------------------------------------------------------
(* Bounds of the model *)

\* the slot time of a call is in 0..MaxTime
MaxTime == 1
\* longest list of an add / remove call
MaxBatch == 2
\* longest list of queries of balanceOf / expiryOf / tokenMetadata
MaxQueries == 2

(* Domains of the inputs *)

TokenIds == {0, 1}
Accounts == {"A0", "A1"}
Contracts == {"K0"}
Owner == "A0"

Account(a) == [kind |-> "Account", id |-> a]
Contract(c) == [kind |-> "Contract", id |-> c]
Addresses == {Account(a) : a \in Accounts} \cup {Contract(c) : c \in Contracts}

\* amounts and expiries given to mint
Amounts == {0, 1}
Expiries == {0, 1, 2}
\* the instants a ledger is looked at
Times == 0..(MaxTime + 2)

None == << >>
Some(x) == << x >>

Metadatas == {[url |-> "u1", hash |-> None], [url |-> "u2", hash |-> Some(7)]}
EmptyMetadata == [url |-> "", hash |-> None]

\* every sequence over S of length at most n
SeqUpTo(S, n) == UNION {[1..k -> S] : k \in 0..n}

---------------------------------------------------------------------------
(* StateMap / BTreeMap primitives *)

MapInsert(m, k, v) == [x \in (DOMAIN m) \cup {k} |-> IF x = k THEN v ELSE m[x]]
MapRemove(m, k) == [x \in (DOMAIN m) \ {k} |-> m[x]]
MapGet(m, k) == IF k \in DOMAIN m THEN Some(m[k]) ELSE None
EmptyMap == [x \in {} |-> 0]

\* variant: the keys in descending order
RECURSIVE SortedKeys_desc(_)
SortedKeys_desc(S) ==
  IF S = {} THEN << >>
  ELSE LET k == CHOOSE x \in S : \A y \in S : x >= y
       IN << k >> \o SortedKeys_desc(S \ {k})

\* the keys of a BTreeMap in iteration (ascending) order
RECURSIVE SortedKeys(_)
SortedKeys(S) ==
  IF S = {} THEN << >>
  ELSE LET k == CHOOSE x \in S : \A y \in S : x <= y
       IN << k >> \o SortedKeys(S \ {k})

---------------------------------------------------------------------------
(* state.rs : TokenBalanceState *)

\* variant: a record counts until its expiry instant inclusive
get_balance_ge(balance, t) == IF balance.expiry >= t THEN balance.amount ELSE 0

\* variant: the stored amount, whatever the instant
get_balance_stored(balance, t) == balance.amount

get_balance(balance, t) == IF balance.expiry > t THEN balance.amount ELSE 0

\* variant: any unexpired record counts, also one of amount zero
has_balance_unexpired(balance, t) == balance.expiry > t

has_balance(balance, t) == get_balance(balance, t) > 0

(* state.rs : TokenState *)

TokenState_get_account_balance(token, account, t) ==
  IF account \in DOMAIN token.balances
  THEN get_balance(token.balances[account], t)
  ELSE 0

TokenState_get_account_balance_expiry(token, account) ==
  IF account \in DOMAIN token.balances
  THEN Some(token.balances[account].expiry)
  ELSE None

(* state.rs : State *)

empty == EmptyMap

has_token(st, token_id) == MapGet(st, token_id) # None

add_token(st, token_id, token_metadata) ==
  IF token_id \in DOMAIN st THEN st
  ELSE MapInsert(st, token_id, [balances |-> EmptyMap, metadata |-> token_metadata])

\* variant: the entry stays, only its balance records are dropped
remove_token_clear(st, token_id) ==
  IF token_id \in DOMAIN st THEN [st EXCEPT ![token_id].balances = EmptyMap] ELSE st

remove_token(st, token_id) == MapRemove(st, token_id)

\* variant: the scan asks whether all records are active, not whether any is
has_balances_all(st, token_id, t) ==
  IF token_id \in DOMAIN st
  THEN \A a \in DOMAIN st[token_id].balances : has_balance(st[token_id].balances[a], t)
  ELSE FALSE

has_balances(st, token_id, t) ==
  IF token_id \in DOMAIN st
  THEN \E a \in DOMAIN st[token_id].balances : has_balance(st[token_id].balances[a], t)
  ELSE FALSE

\* variant: the minted amount is added to the amount already stored
State_mint_accumulate(st, token_id, account, amount, expiry) ==
  IF token_id \in DOMAIN st
  THEN LET old == MapGet(st[token_id].balances, account)
           sum == IF old = None THEN amount ELSE (old[1].amount + amount) % 65536
       IN [result |-> "Ok",
           value |-> old,
           tokens |-> [st EXCEPT ![token_id].balances =
                          MapInsert(@, account, [amount |-> sum, expiry |-> expiry])]]
  ELSE [result |-> "InvalidTokenId", value |-> None, tokens |-> st]

\* variant: a token that is missing is created by the mint
State_mint_creates(st, token_id, account, amount, expiry) ==
  LET st1 == IF token_id \in DOMAIN st THEN st
             ELSE MapInsert(st, token_id,
                            [balances |-> EmptyMap, metadata |-> [url |-> "", hash |-> None]])
  IN [result |-> "Ok",
      value |-> MapGet(st1[token_id].balances, account),
      tokens |-> [st1 EXCEPT ![token_id].balances =
                     MapInsert(@, account, [amount |-> amount, expiry |-> expiry])]]

\* variant: the balances map of the token is replaced by the new record alone
State_mint_single(st, token_id, account, amount, expiry) ==
  IF token_id \in DOMAIN st
  THEN [result |-> "Ok",
        value |-> MapGet(st[token_id].balances, account),
        tokens |-> [st EXCEPT ![token_id].balances =
                       MapInsert(EmptyMap, account, [amount |-> amount, expiry |-> expiry])]]
  ELSE [result |-> "InvalidTokenId", value |-> None, tokens |-> st]

\* variant: the token entry is rebuilt around the new record, its metadata
\* is not carried over
State_mint_rebuilds(st, token_id, account, amount, expiry) ==
  IF token_id \in DOMAIN st
  THEN [result |-> "Ok",
        value |-> MapGet(st[token_id].balances, account),
        tokens |-> [st EXCEPT ![token_id] =
                       [balances |-> MapInsert(st[token_id].balances, account,
                                               [amount |-> amount, expiry |-> expiry]),
                        metadata |-> [url |-> "", hash |-> None]]]]
  ELSE [result |-> "InvalidTokenId", value |-> None, tokens |-> st]

\* State::mint: the new ledger and Ok(old record) or Err(InvalidTokenId)
State_mint(st, token_id, account, amount, expiry) ==
  IF token_id \in DOMAIN st
  THEN [result |-> "Ok",
        value |-> MapGet(st[token_id].balances, account),
        tokens |-> [st EXCEPT ![token_id].balances =
                       MapInsert(@, account, [amount |-> amount, expiry |-> expiry])]]
  ELSE [result |-> "InvalidTokenId", value |-> None, tokens |-> st]

get_account_balance(st, token_id, account, t) ==
  IF token_id \in DOMAIN st
  THEN [result |-> "Ok", value |-> TokenState_get_account_balance(st[token_id], account, t)]
  ELSE [result |-> "InvalidTokenId", value |-> 0]

\* variant: a missing token reads as "no record"
get_account_balance_expiry_lenient(st, token_id, account) ==
  IF token_id \in DOMAIN st
  THEN [result |-> "Ok", value |-> TokenState_get_account_balance_expiry(st[token_id], account)]
  ELSE [result |-> "Ok", value |-> None]

get_account_balance_expiry(st, token_id, account) ==
  IF token_id \in DOMAIN st
  THEN [result |-> "Ok", value |-> TokenState_get_account_balance_expiry(st[token_id], account)]
  ELSE [result |-> "InvalidTokenId", value |-> None]

get_token_metadata(st, token_id) ==
  IF token_id \in DOMAIN st
  THEN [result |-> "Ok", value |-> st[token_id].metadata]
  ELSE [result |-> "InvalidTokenId", value |-> EmptyMetadata]

---------------------------------------------------------------------------
(* events *)

MintEvent(token_id, owner, amount) ==
  [type |-> "Mint", token_id |-> token_id, owner |-> Account(owner), amount |-> amount]
BurnEvent(token_id, owner, amount) ==
  [type |-> "Burn", token_id |-> token_id, owner |-> Account(owner), amount |-> amount]
TokenMetadataEvent(token_id, metadata_url) ==
  [type |-> "TokenMetadata", token_id |-> token_id, metadata_url |-> metadata_url]

\* variant: any account address passes, only contract addresses are refused
matches_account_any(sender, owner) == sender.kind = "Account"

matches_account(sender, owner) == sender.kind = "Account" /\ sender.id = owner

---------------------------------------------------------------------------
(* what an entry point hands back: the ledger as it leaves it, the result, *)
(* the events it logged and the return value                               *)

Outcome(st, result, logger, response) ==
  [tokens |-> st, result |-> result, events |-> logger, response |-> response]

(* contract/add.rs *)

AddTokenParams == [token_id : TokenIds, metadata_url : Metadatas]
AddParams == [tokens : SeqUpTo(AddTokenParams, MaxBatch)]

\* variant: the event of an item is logged before the item is checked and added
RECURSIVE add_loop_logfirst(_, _, _)
add_loop_logfirst(st, items, logger) ==
  IF items = << >> THEN Outcome(st, "Ok", logger, << >>)
  ELSE LET token == Head(items)
           logged == Append(logger, TokenMetadataEvent(token.token_id, token.metadata_url))
       IN IF has_token(st, token.token_id)
          THEN Outcome(st, "InvalidTokenId", logged, << >>)
          ELSE add_loop_logfirst(add_token(st, token.token_id, token.metadata_url),
                                 Tail(items), logged)

\* variant: add without the existence check
RECURSIVE add_loop_nocheck(_, _, _)
add_loop_nocheck(st, items, logger) ==
  IF items = << >> THEN Outcome(st, "Ok", logger, << >>)
  ELSE LET token == Head(items) IN
       add_loop_nocheck(add_token(st, token.token_id, token.metadata_url),
                        Tail(items),
                        Append(logger, TokenMetadataEvent(token.token_id, token.metadata_url)))

RECURSIVE add_loop(_, _, _)
add_loop(st, items, logger) ==
  IF items = << >> THEN Outcome(st, "Ok", logger, << >>)
  ELSE LET token == Head(items) IN
       IF has_token(st, token.token_id)
       THEN Outcome(st, "InvalidTokenId", logger, << >>)
       ELSE add_loop(add_token(st, token.token_id, token.metadata_url),
                     Tail(items),
                     Append(logger, TokenMetadataEvent(token.token_id, token.metadata_url)))

add(ctx, st, params) ==
  IF ~matches_account(ctx.sender, ctx.owner)
  THEN Outcome(st, "Unauthorized", << >>, << >>)
  ELSE add_loop(st, params.tokens, << >>)

(* contract/mint.rs *)

MintParam == [amount : Amounts, expiry : Expiries]
MintParams == [owner : Accounts,
               tokens : UNION {[D -> MintParam] : D \in SUBSET TokenIds}]

\* the request a caller writes: the list of (token id, entry) pairs that
\* BTreeMap::from_iter turns into the tokens map of MintParams
\* (a map has one entry per key: the list names each token id once)
MintRequest ==
  {request \in SeqUpTo(TokenIds \X MintParam, MaxBatch) :
     \A i, j \in 1..Len(request) : request[i][1] = request[j][1] => i = j}

\* BTreeMap::from_iter: the pairs are inserted in list order, a later pair
\* replaces an earlier one with the same key
RECURSIVE BTreeMap_from_iter(_)
BTreeMap_from_iter(items) ==
  IF items = << >> THEN EmptyMap
  ELSE LET front == SubSeq(items, 1, Len(items) - 1)
           item == items[Len(items)]
       IN MapInsert(BTreeMap_from_iter(front), item[1], item[2])

\* variant: the Burn carries the stored amount of the old record, expired or not
mint_events_stored(token_id, owner, mint_param, existing_balance, slot_time) ==
  LET burn == IF existing_balance # None /\ existing_balance[1].amount > 0
              THEN << BurnEvent(token_id, owner, existing_balance[1].amount) >>
              ELSE << >>
  IN burn \o << MintEvent(token_id, owner, mint_param.amount) >>

\* variant: a Mint of amount zero is not logged
mint_events_nonzero(token_id, owner, mint_param, existing_balance, slot_time) ==
  LET burn == IF existing_balance # None
                 /\ get_balance(existing_balance[1], slot_time) > 0
              THEN << BurnEvent(token_id, owner, get_balance(existing_balance[1], slot_time)) >>
              ELSE << >>
  IN burn \o (IF mint_param.amount > 0
              THEN << MintEvent(token_id, owner, mint_param.amount) >>
              ELSE << >>)

\* the events of one minted entry: a Burn of the old effective amount when
\* it is positive, then the Mint
mint_events(token_id, owner, mint_param, existing_balance, slot_time) ==
  LET burn == IF existing_balance # None
                 /\ get_balance(existing_balance[1], slot_time) > 0
              THEN << BurnEvent(token_id, owner, get_balance(existing_balance[1], slot_time)) >>
              ELSE << >>
  IN burn \o << MintEvent(token_id, owner, mint_param.amount) >>

\* variant: an entry that expires at the instant of the call is accepted
mint_expiry_ok_ge(mint_param, slot_time) == mint_param.expiry >= slot_time

\* the entry has not already expired
mint_expiry_ok(mint_param, slot_time) == mint_param.expiry > slot_time

\* variant: the token is looked up before the expiry of the entry is tested
RECURSIVE mint_loop_token_first(_, _, _, _, _)
mint_loop_token_first(st, keys, params, slot_time, logger) ==
  IF keys = << >> THEN Outcome(st, "Ok", logger, << >>)
  ELSE LET token_id == Head(keys)
           mint_param == params.tokens[token_id]
       IN IF ~has_token(st, token_id)
          THEN Outcome(st, "InvalidTokenId", logger, << >>)
          ELSE IF ~mint_expiry_ok(mint_param, slot_time)
          THEN Outcome(st, "TokenExpired", logger, << >>)
          ELSE LET m == State_mint(st, token_id, params.owner,
                                   mint_param.amount, mint_param.expiry)
               IN mint_loop_token_first(m.tokens, Tail(keys), params, slot_time,
                                        logger \o mint_events(token_id, params.owner,
                                                              mint_param, m.value, slot_time))

RECURSIVE mint_loop(_, _, _, _, _)
mint_loop(st, keys, params, slot_time, logger) ==
  IF keys = << >> THEN Outcome(st, "Ok", logger, << >>)
  ELSE LET token_id == Head(keys)
           mint_param == params.tokens[token_id]
       IN IF ~mint_expiry_ok(mint_param, slot_time)
          THEN Outcome(st, "TokenExpired", logger, << >>)
          ELSE LET m == State_mint(st, token_id, params.owner,
                                   mint_param.amount, mint_param.expiry)
               IN IF m.result # "Ok"
                  THEN Outcome(st, m.result, logger, << >>)
                  ELSE mint_loop(m.tokens, Tail(keys), params, slot_time,
                                 logger \o mint_events(token_id, params.owner, mint_param,
                                                       m.value, slot_time))

mint(ctx, st, params) ==
  IF ~matches_account(ctx.sender, ctx.owner)
  THEN Outcome(st, "Unauthorized", << >>, << >>)
  ELSE mint_loop(st, SortedKeys(DOMAIN params.tokens), params, ctx.slot_time, << >>)

(* contract/remove.rs *)

RemoveParams == [tokens : SeqUpTo(TokenIds, MaxBatch)]

\* the accounts in the order a balances map is walked
SortedAccounts == << "A0", "A1" >>

\* variant: remove without the existence check (a missing token is skipped
\* silently, as remove_token does not fail)
RECURSIVE remove_loop_noop(_, _, _, _)
remove_loop_noop(st, items, slot_time, logger) ==
  IF items = << >> THEN Outcome(st, "Ok", logger, << >>)
  ELSE LET token_id == Head(items) IN
       IF has_balances(st, token_id, slot_time)
       THEN Outcome(st, "TokenHasValidBalances", logger, << >>)
       ELSE remove_loop_noop(remove_token(st, token_id), Tail(items), slot_time,
                             Append(logger, TokenMetadataEvent(token_id, EmptyMetadata)))

\* variant: the stored amounts of the deleted records are logged as burnt
RECURSIVE remove_loop_burns(_, _, _, _)
remove_loop_burns(st, items, slot_time, logger) ==
  IF items = << >> THEN Outcome(st, "Ok", logger, << >>)
  ELSE LET token_id == Head(items) IN
       IF ~has_token(st, token_id)
       THEN Outcome(st, "InvalidTokenId", logger, << >>)
       ELSE IF has_balances(st, token_id, slot_time)
       THEN Outcome(st, "TokenHasValidBalances", logger, << >>)
       ELSE LET holders == SortedKeys({n \in 1..Cardinality(Accounts) :
                                         \E a \in DOMAIN st[token_id].balances :
                                           a = SortedAccounts[n]
                                           /\ st[token_id].balances[a].amount > 0})
                burns == [k \in 1..Len(holders) |->
                            BurnEvent(token_id, SortedAccounts[holders[k]],
                                      st[token_id].balances[SortedAccounts[holders[k]]].amount)]
            IN remove_loop_burns(remove_token(st, token_id), Tail(items), slot_time,
                                 (logger \o burns)
                                   \o << TokenMetadataEvent(token_id, EmptyMetadata) >>)

RECURSIVE remove_loop(_, _, _, _)
remove_loop(st, items, slot_time, logger) ==
  IF items = << >> THEN Outcome(st, "Ok", logger, << >>)
  ELSE LET token_id == Head(items) IN
       IF ~has_token(st, token_id)
       THEN Outcome(st, "InvalidTokenId", logger, << >>)
       ELSE IF has_balances(st, token_id, slot_time)
       THEN Outcome(st, "TokenHasValidBalances", logger, << >>)
       ELSE remove_loop(remove_token(st, token_id), Tail(items), slot_time,
                        Append(logger, TokenMetadataEvent(token_id, EmptyMetadata)))

remove(ctx, st, params) ==
  IF ~matches_account(ctx.sender, ctx.owner)
  THEN Outcome(st, "Unauthorized", << >>, << >>)
  ELSE remove_loop(st, params.tokens, ctx.slot_time, << >>)

(* contract/balance_of.rs, contract/expiry_of.rs, contract/token_metadata.rs *)

BalanceOfQuery == [token_id : TokenIds, address : Addresses]
BalanceOfQueryParams == [queries : SeqUpTo(BalanceOfQuery, MaxQueries)]
TokenMetadataQueryParams == [queries : SeqUpTo(TokenIds, MaxQueries)]

\* variant: the whole list is evaluated and the error kept is the last one
RECURSIVE collect_last_error(_, _)
collect_last_error(results, acc) ==
  IF results = << >> THEN [result |-> "Ok", value |-> acc]
  ELSE LET rest == collect_last_error(Tail(results), Append(acc, Head(results).value))
       IN IF rest.result # "Ok" THEN rest
          ELSE IF Head(results).result # "Ok"
               THEN [result |-> Head(results).result, value |-> << >>]
               ELSE rest

\* collect::<Result<Vec<_>, _>>: the values in order, or the first error
RECURSIVE collect(_, _)
collect(results, acc) ==
  IF results = << >> THEN [result |-> "Ok", value |-> acc]
  ELSE IF Head(results).result # "Ok"
       THEN [result |-> Head(results).result, value |-> << >>]
       ELSE collect(Tail(results), Append(acc, Head(results).value))

\* variant: the token is looked up before the kind of the holder is tested
balance_of_query_token_first(st, q, slot_time) ==
  IF q.token_id \notin DOMAIN st THEN [result |-> "InvalidTokenId", value |-> 0]
  ELSE IF q.address.kind = "Account"
       THEN get_account_balance(st, q.token_id, q.address.id, slot_time)
       ELSE [result |-> "AccountsOnly", value |-> 0]

balance_of_query(st, q, slot_time) ==
  IF q.address.kind = "Account"
  THEN get_account_balance(st, q.token_id, q.address.id, slot_time)
  ELSE [result |-> "AccountsOnly", value |-> 0]

\* variant: the records the queries find expired are erased from the ledger
balance_of_purging(ctx, st, params) ==
  LET c == collect([i \in DOMAIN params.queries |->
                      balance_of_query(st, params.queries[i], ctx.slot_time)], << >>)
      stale(t, a) == \E i \in DOMAIN params.queries :
                       /\ params.queries[i] = [token_id |-> t, address |-> Account(a)]
                       /\ st[t].balances[a].expiry <= ctx.slot_time
      purged == [t \in DOMAIN st |->
                   [st[t] EXCEPT !.balances =
                      [a \in {b \in DOMAIN st[t].balances : ~stale(t, b)} |->
                         st[t].balances[a]]]]
  IN Outcome(purged, c.result, << >>, c.value)

balance_of(ctx, st, params) ==
  LET c == collect([i \in DOMAIN params.queries |->
                      balance_of_query(st, params.queries[i], ctx.slot_time)], << >>)
  IN Outcome(st, c.result, << >>, c.value)

expiry_of_query(st, q) ==
  IF q.address.kind = "Account"
  THEN get_account_balance_expiry(st, q.token_id, q.address.id)
  ELSE [result |-> "AccountsOnly", value |-> None]

expiry_of(ctx, st, params) ==
  LET c == collect([i \in DOMAIN params.queries |->
                      expiry_of_query(st, params.queries[i])], << >>)
  IN Outcome(st, c.result, << >>, c.value)

token_metadata(ctx, st, params) ==
  LET c == collect([i \in DOMAIN params.queries |->
                      get_token_metadata(st, params.queries[i])], << >>)
  IN Outcome(st, c.result, << >>, c.value)

(* contract/transfer.rs, contract/update_operator.rs, contract/operator_of.rs *)

\* no transfer or one
Transfer == [token_id : TokenIds, amount : Amounts, from : Accounts, to : Accounts]
TransferParams == {<< >>} \cup {<< t >> : t \in Transfer}

\* no update or one
UpdateOperator == [update : {"Remove", "Add"}, operator : Addresses]
UpdateOperatorParams == {<< >>} \cup {<< u >> : u \in UpdateOperator}

OperatorOfQuery == [owner : {Account(a) : a \in Accounts}, address : Addresses]
OperatorOfQueryParams == [queries : SeqUpTo(OperatorOfQuery, MaxQueries)]

\* variant: the owner of the contract may transfer
transfer_by_owner(ctx, st, params) ==
  IF matches_account(ctx.sender, ctx.owner)
  THEN Outcome(st, "Ok", << >>, << >>)
  ELSE Outcome(st, "Unauthorized", << >>, << >>)

\* neither the context nor the host is read
transfer(ctx, st, params) == Outcome(st, "Unauthorized", << >>, << >>)

contract_update_operator(ctx, st, params) == Outcome(st, "Unauthorized", << >>, << >>)

contract_operator_of(ctx, st, params) ==
  Outcome(st, "Ok", << >>, [i \in DOMAIN params.queries |-> FALSE])

---------------------------------------------------------------------------
(* The state machine.  The host runs one call at a time to completion:     *)
(* each entry point is one action that takes the ledger from idle to the   *)
(* returned call (last), and Return hands the result to the caller.        *)

Idle == [op |-> "idle", sender |-> None, params |-> << >>, pre |-> empty,
         result |-> "Ok", events |-> << >>, response |-> << >>]

Ctx(sender) == [sender |-> sender, owner |-> Owner, slot_time |-> now]

\* the parameter is parsed only after the sender check of add / mint / remove
Parsed(sender, params) == IF matches_account(sender, Owner) THEN Some(params) ELSE None

\* the queries do not read the sender
AnySender == None
QueryCtx == [slot_time |-> now]

Returned(op, sender, params, r) ==
  /\ tokens' = r.tokens
  /\ last' = [op |-> op, sender |-> sender, params |-> params, pre |-> tokens,
              result |-> r.result, events |-> r.events, response |-> r.response]
  /\ UNCHANGED now

Init ==
  /\ tokens = empty
  /\ now = 0
  /\ last = Idle

Add ==
  /\ last.op = "idle"
  /\ \E sender \in Addresses, params \in AddParams :
        Returned("add", Some(sender), Parsed(sender, params), add(Ctx(sender), tokens, params))

Mint ==
  /\ last.op = "idle"
  /\ \E sender \in Addresses, params \in MintParams :
        Returned("mint", Some(sender), Parsed(sender, params), mint(Ctx(sender), tokens, params))

Remove ==
  /\ last.op = "idle"
  /\ \E sender \in Addresses, params \in RemoveParams :
        Returned("remove", Some(sender), Parsed(sender, params), remove(Ctx(sender), tokens, params))

BalanceOf ==
  /\ last.op = "idle"
  /\ \E params \in BalanceOfQueryParams :
        Returned("balanceOf", AnySender, Some(params), balance_of(QueryCtx, tokens, params))

ExpiryOf ==
  /\ last.op = "idle"
  /\ \E params \in BalanceOfQueryParams :
        Returned("expiryOf", AnySender, Some(params), expiry_of(QueryCtx, tokens, params))

TokenMetadata ==
  /\ last.op = "idle"
  /\ \E params \in TokenMetadataQueryParams :
        Returned("tokenMetadata", AnySender, Some(params),
                 token_metadata(QueryCtx, tokens, params))

\* the host delivers the result of the call; the next call may start
Return ==
  /\ last.op # "idle"
  /\ last' = Idle
  /\ UNCHANGED <<tokens, now>>

\* the slot time of the next call is later than that of the previous one
Tick ==
  /\ last.op = "idle"
  /\ now < MaxTime
  /\ now' = now + 1
  /\ UNCHANGED <<tokens, last>>

\* the calls that may change the ledger
Next ==
  \/ Add
  \/ Mint
  \/ Remove
  \/ Return
  \/ Tick

Spec == Init /\ [][Next]_vars

\* a call of add or mint by the owner whose result has been handed back
\* (the entry point followed by Return)
AddReturned ==
  /\ last.op = "idle"
  /\ \E params \in AddParams :
        tokens' = add(Ctx(Account(Owner)), tokens, params).tokens
  /\ UNCHANGED <<now, last>>

MintReturned ==
  /\ last.op = "idle"
  /\ \E params \in MintParams :
        tokens' = mint(Ctx(Account(Owner)), tokens, params).tokens
  /\ UNCHANGED <<now, last>>

\* the queries, on every ledger that add and mint build
NextQuery ==
  \/ AddReturned
  \/ MintReturned
  \/ BalanceOf
  \/ ExpiryOf
  \/ TokenMetadata
  \/ Return
  \/ Tick

SpecQuery == Init /\ [][NextQuery]_vars

\* a mint call by the owner whose tokens map is built from the list of pairs
\* the caller wrote; the list is kept with the returned call
MintFromRequest ==
  /\ last.op = "idle"
  /\ \E owner \in Accounts, request \in MintRequest :
        LET params == [owner |-> owner, tokens |-> BTreeMap_from_iter(request)]
            r == mint(Ctx(Account(Owner)), tokens, params)
        IN /\ tokens' = r.tokens
           /\ last' = [op |-> "mint", sender |-> Some(Account(Owner)),
                       params |-> Some(params), pre |-> tokens,
                       result |-> r.result, events |-> r.events,
                       response |-> r.response, request |-> request]
           /\ UNCHANGED now

\* mint calls written as lists of pairs, on the ledgers add produces
NextRequest ==
  \/ AddReturned
  \/ MintFromRequest
  \/ Return
  \/ Tick

SpecRequest == Init /\ [][NextRequest]_vars

TransferCall ==
  /\ last.op = "idle"
  /\ \E sender \in Addresses, params \in TransferParams :
        Returned("transfer", Some(sender), Some(params), transfer(Ctx(sender), tokens, params))

UpdateOperatorCall ==
  /\ last.op = "idle"
  /\ \E sender \in Addresses, params \in UpdateOperatorParams :
        Returned("updateOperator", Some(sender), Some(params),
                 contract_update_operator(Ctx(sender), tokens, params))

OperatorOf ==
  /\ last.op = "idle"
  /\ \E params \in OperatorOfQueryParams :
        Returned("operatorOf", AnySender, Some(params),
                 contract_operator_of(QueryCtx, tokens, params))

\* the entry points of CIS-2 that the contract disables, on the ledgers
\* add and mint produce
NextDisabled ==
  \/ AddReturned
  \/ MintReturned
  \/ TransferCall
  \/ UpdateOperatorCall
  \/ OperatorOf
  \/ Return

SpecDisabled == Init /\ [][NextDisabled]_vars

\* the four queries of the contract, on the ledgers add and mint produce
NextReadOnly ==
  \/ AddReturned
  \/ MintReturned
  \/ BalanceOf
  \/ ExpiryOf
  \/ TokenMetadata
  \/ OperatorOf
  \/ Return
  \/ Tick

SpecReadOnly == Init /\ [][NextReadOnly]_vars

---------------------------------------------------------------------------
(* Flows: fixed sequences of calls on one host, as the tests of the        *)
(* contract run them (init, then each call with its own slot time on the   *)
(* state the previous call left).  last.flow tells which flow is run, with *)
(* which token, holder and metadata, and how many of its calls are done.   *)

Step(op, at, params) == [op |-> op, at |-> at, params |-> params]

FlowBalanceQuery(f) == [queries |-> << [token_id |-> f.T, address |-> Account(f.H)] >>]

\* add, mint, queries before and after the expiry, remove, queries again
CompleteFlow(f) ==
  << Step("add", 50, [tokens |-> << [token_id |-> f.T, metadata_url |-> f.M] >>]),
     Step("mint", 50, [owner |-> f.H, tokens |-> (f.T :> [amount |-> 100, expiry |-> 100])]),
     Step("balanceOf", 50, FlowBalanceQuery(f)),
     Step("expiryOf", 50, FlowBalanceQuery(f)),
     Step("balanceOf", 150, FlowBalanceQuery(f)),
     Step("expiryOf", 150, FlowBalanceQuery(f)),
     Step("remove", 150, [tokens |-> << f.T >>]),
     Step("balanceOf", 150, FlowBalanceQuery(f)),
     Step("expiryOf", 150, FlowBalanceQuery(f)),
     Step("tokenMetadata", 150, [queries |-> << f.T >>]) >>

\* two mints to the same holder, the second while the first is active
RemintFlow(f) ==
  << Step("add", 50, [tokens |-> << [token_id |-> f.T, metadata_url |-> f.M] >>]),
     Step("mint", 50, [owner |-> f.H, tokens |-> (f.T :> [amount |-> 10, expiry |-> 100])]),
     Step("mint", 60, [owner |-> f.H, tokens |-> (f.T :> [amount |-> 20, expiry |-> 200])]),
     Step("balanceOf", 150, FlowBalanceQuery(f)) >>

\* a token with a record is removed and registered again
ReregisterFlow(f) ==
  << Step("add", 50, [tokens |-> << [token_id |-> f.T, metadata_url |-> f.M] >>]),
     Step("mint", 50, [owner |-> f.H, tokens |-> (f.T :> f.record)]),
     Step("expiryOf", 50, FlowBalanceQuery(f)),
     Step("remove", 150, [tokens |-> << f.T >>]),
     Step("add", 150, [tokens |-> << [token_id |-> f.T, metadata_url |-> f.M2] >>]),
     Step("balanceOf", 150,
          [queries |-> << [token_id |-> f.T, address |-> Account("A0")],
                          [token_id |-> f.T, address |-> Account("A1")] >>]),
     Step("expiryOf", 150,
          [queries |-> << [token_id |-> f.T, address |-> Account("A0")],
                          [token_id |-> f.T, address |-> Account("A1")] >>]),
     Step("tokenMetadata", 150, [queries |-> << f.T >>]) >>

Scenario(f) ==
  CASE f.name = "complete" -> CompleteFlow(f)
    [] f.name = "remint" -> RemintFlow(f)
    [] f.name = "reregister" -> ReregisterFlow(f)

\* the record minted before the removal: one that expires before the
\* removal, or one of amount zero that does not
FlowRecords == {[amount |-> 100, expiry |-> 100], [amount |-> 0, expiry |-> 300]}

Flows ==
  {f \in [name : {"complete", "remint", "reregister"}, T : TokenIds, H : Accounts,
          M : Metadatas, M2 : Metadatas, record : FlowRecords, done : {0}] :
     (f.name # "reregister") => (f.M2 = f.M /\ f.record.amount = 100)}

\* the flow under way, or every flow when the host is fresh
FlowsUnderWay ==
  IF "flow" \in DOMAIN last THEN {last.flow}
  ELSE IF last = Idle /\ tokens = empty /\ now = 0 THEN Flows
  ELSE {}

Call(op, ctx, st, params) ==
  CASE op = "add" -> add(ctx, st, params)
    [] op = "mint" -> mint(ctx, st, params)
    [] op = "remove" -> remove(ctx, st, params)
    [] op = "balanceOf" -> balance_of(ctx, st, params)
    [] op = "expiryOf" -> expiry_of(ctx, st, params)
    [] op = "tokenMetadata" -> token_metadata(ctx, st, params)

\* the next call of the flow, if it is a call of op, by the owner
FlowCall(op) ==
  \E f \in FlowsUnderWay :
    /\ f.done < Len(Scenario(f))
    /\ LET step == Scenario(f)[f.done + 1]
           ctx == [sender |-> Account(Owner), owner |-> Owner, slot_time |-> step.at]
           r == Call(op, ctx, tokens, step.params)
       IN /\ step.op = op
          /\ tokens' = r.tokens
          /\ now' = step.at
          /\ last' = [op |-> op, sender |-> Some(Account(Owner)),
                      params |-> Some(step.params), pre |-> tokens,
                      result |-> r.result, events |-> r.events,
                      response |-> r.response, flow |-> [f EXCEPT !.done = @ + 1]]

FlowAdd == FlowCall("add")
FlowMint == FlowCall("mint")
FlowRemove == FlowCall("remove")
FlowBalanceOf == FlowCall("balanceOf")
FlowExpiryOf == FlowCall("expiryOf")
FlowTokenMetadata == FlowCall("tokenMetadata")

NextFlow ==
  \/ FlowAdd
  \/ FlowMint
  \/ FlowRemove
  \/ FlowBalanceOf
  \/ FlowExpiryOf
  \/ FlowTokenMetadata

SpecFlow == Init /\ [][NextFlow]_vars

---------------------------------------------------------------------------
(* Reading the returned call and the ledger, independently of the          *)
(* operators above                                                         *)

\* the call that has just returned was made by the owner account
ByOwner == last.sender = Some(Account(Owner))

Returns(op) == last.op = op
OwnerCall(op) == last.op = op /\ ByOwner

\* the record stored for (t, h) in ledger st: None or Some([amount, expiry])
Stored(st, t, h) ==
  IF t \in DOMAIN st
  THEN IF h \in DOMAIN st[t].balances THEN Some(st[t].balances[h]) ELSE None
  ELSE None

\* the amount (t, h) is credited with at instant at in ledger st
Effective(st, t, h, at) ==
  LET r == Stored(st, t, h)
  IN IF r = None THEN 0 ELSE IF at < r[1].expiry THEN r[1].amount ELSE 0

\* some holder of t has a positive amount that is not expired at instant at
Active(st, t, at) == \E h \in Accounts : Effective(st, t, h, at) > 0

---------------------------------------------------------------------------
(* C1: a successful mint of (a, e) for holder H on token T replaces the    *)
(* record of (T, H) wholesale: afterwards expiryOf(T, H) = Some(e) and     *)
(* balanceOf(T, H, t) is a at every instant t < e and 0 at every t >= e,   *)
(* whatever the record was before.                                         *)
C1_MintReplacesRecord ==
  (OwnerCall("mint") /\ last.result = "Ok") =>
    LET P == last.params[1] IN
    \A t \in DOMAIN P.tokens :
      LET a == P.tokens[t].amount
          e == P.tokens[t].expiry
      IN /\ get_account_balance_expiry(tokens, t, P.owner) = [result |-> "Ok", value |-> Some(e)]
         /\ \A at \in Times :
              get_account_balance(tokens, t, P.owner, at)
                = [result |-> "Ok", value |-> IF at < e THEN a ELSE 0]

\* a mint has replaced a record of amount 1 that was still active by a
\* record of amount 1 with a later expiry
C1_Witness ==
  /\ OwnerCall("mint") /\ last.result = "Ok"
  /\ \E t \in DOMAIN last.params[1].tokens :
       LET P == last.params[1]
           old == Stored(last.pre, t, P.owner)
       IN /\ old # None
          /\ old[1].amount = 1 /\ old[1].expiry > now
          /\ P.tokens[t].amount = 1
          /\ P.tokens[t].expiry > old[1].expiry

(* C2: balanceOf(T, H, now) for an account H fails with InvalidTokenId iff *)
(* T is not registered; otherwise it returns the stored amount when the    *)
(* stored expiry is strictly greater than now, 0 when expiry <= now, and 0 *)
(* (no error) when H has no record under T.  Checked on the ledger between *)
(* two calls, at every instant, and on every balanceOf call that returned. *)
BalanceExpected(st, t, h, at) ==
  LET r == Stored(st, t, h)
  IN IF r = None THEN 0
     ELSE IF r[1].expiry > at THEN r[1].amount
     ELSE 0

\* the queries before position i name registered tokens and account holders
QueriesFineBefore(qs, i) ==
  \A j \in 1..(i - 1) : qs[j].address.kind = "Account" /\ qs[j].token_id \in DOMAIN tokens

C2_BalanceOf ==
  /\ Returns("idle") => \A t \in TokenIds, h \in Accounts, at \in Times :
       LET r == balance_of_query(tokens, [token_id |-> t, address |-> Account(h)], at)
       IN /\ (r.result = "InvalidTokenId") <=> (t \notin DOMAIN tokens)
          /\ (t \in DOMAIN tokens) =>
               r = [result |-> "Ok", value |-> BalanceExpected(tokens, t, h, at)]
  /\ Returns("balanceOf") =>
       LET qs == last.params[1].queries IN
       \A i \in 1..Len(qs) :
         (qs[i].address.kind = "Account" /\ QueriesFineBefore(qs, i)) =>
           /\ (qs[i].token_id \notin DOMAIN tokens) => last.result = "InvalidTokenId"
           /\ (qs[i].token_id \in DOMAIN tokens /\ i = Len(qs)) => last.result = "Ok"
           /\ (last.result = "Ok") =>
                /\ qs[i].token_id \in DOMAIN tokens
                /\ Len(last.response) = Len(qs)
                /\ last.response[i]
                     = BalanceExpected(tokens, qs[i].token_id, qs[i].address.id, now)

\* balanceOf has returned 0 for a record of positive amount whose expiry is
\* the instant of the call
C2_Witness ==
  /\ Returns("balanceOf") /\ last.result = "Ok"
  /\ \E i \in 1..Len(last.params[1].queries) :
       LET q == last.params[1].queries[i]
           r == Stored(tokens, q.token_id, q.address.id)
       IN /\ r # None
          /\ r[1].amount > 0 /\ r[1].expiry = now
          /\ last.response[i] = 0

(* C3: expiryOf(T, H) is not masked by time: for a registered token it     *)
(* returns the stored expiry whenever a record exists, also at instants at *)
(* or after that expiry when balanceOf of the pair is 0; it returns None   *)
(* when H has no record and fails with InvalidTokenId when T is not        *)
(* registered.                                                             *)
ExpiryExpected(st, t, h) ==
  LET r == Stored(st, t, h)
  IN IF r = None THEN None ELSE Some(r[1].expiry)

C3_ExpiryOf ==
  /\ Returns("idle") => \A t \in TokenIds, h \in Accounts :
       LET r == expiry_of_query(tokens, [token_id |-> t, address |-> Account(h)])
       IN /\ (r.result = "InvalidTokenId") <=> (t \notin DOMAIN tokens)
          /\ (t \in DOMAIN tokens) =>
               r = [result |-> "Ok", value |-> ExpiryExpected(tokens, t, h)]
  /\ Returns("expiryOf") =>
       LET qs == last.params[1].queries IN
       \A i \in 1..Len(qs) :
         (qs[i].address.kind = "Account" /\ QueriesFineBefore(qs, i)) =>
           /\ (qs[i].token_id \notin DOMAIN tokens) => last.result = "InvalidTokenId"
           /\ (qs[i].token_id \in DOMAIN tokens /\ i = Len(qs)) => last.result = "Ok"
           /\ (last.result = "Ok") =>
                /\ qs[i].token_id \in DOMAIN tokens
                /\ Len(last.response) = Len(qs)
                /\ last.response[i]
                     = ExpiryExpected(tokens, qs[i].token_id, qs[i].address.id)

\* expiryOf has returned the expiry of a record of positive amount at an
\* instant after that expiry, where the balance of the pair is 0
C3_Witness ==
  /\ Returns("expiryOf") /\ last.result = "Ok"
  /\ \E i \in 1..Len(last.params[1].queries) :
       LET q == last.params[1].queries[i]
           r == Stored(tokens, q.token_id, q.address.id)
       IN /\ r # None
          /\ r[1].amount > 0 /\ r[1].expiry <= now
          /\ last.response[i] = Some(r[1].expiry)
          /\ get_account_balance(tokens, q.token_id, q.address.id, now).value = 0

---------------------------------------------------------------------------
(* C4: a remove by the owner of a registered token T at instant now fails  *)
(* with TokenHasValidBalances iff some holder has an effective balance     *)
(* > 0 under T at now; records that are expired or of amount zero do not   *)
(* block the removal, one active balance of any holder does.  In a list    *)
(* the statement is about the item the call has come to: the items before  *)
(* it were removed.                                                        *)

\* the items before position i of list L were registered, distinct and
\* without active balance at the call: the call has removed them
RemovedBefore(L, i) ==
  \A j \in 1..(i - 1) :
    /\ L[j] \in DOMAIN last.pre
    /\ ~Active(last.pre, L[j], now)
    /\ \A k \in 1..(j - 1) : L[k] # L[j]

C4_RemoveBlockedIffActive ==
  OwnerCall("remove") =>
    LET L == last.params[1].tokens IN
    /\ \A i \in 1..Len(L) :
         (/\ L[i] \in DOMAIN last.pre
          /\ \A j \in 1..(i - 1) : L[j] # L[i]
          /\ RemovedBefore(L, i)) =>
            /\ Active(last.pre, L[i], now) =>
                 (last.result = "TokenHasValidBalances" /\ L[i] \in DOMAIN tokens)
            /\ (~Active(last.pre, L[i], now) /\ i = Len(L)) => last.result = "Ok"
    /\ (last.result = "TokenHasValidBalances") =>
         \E i \in 1..Len(L) : L[i] \in DOMAIN last.pre /\ Active(last.pre, L[i], now)

\* a remove has succeeded on a token that holds an expired record of
\* positive amount and an unexpired record of amount zero
C4_Witness ==
  /\ OwnerCall("remove") /\ last.result = "Ok"
  /\ \E i \in 1..Len(last.params[1].tokens) :
       LET t == last.params[1].tokens[i] IN
       /\ t \in DOMAIN last.pre
       /\ \E h \in Accounts :
            /\ Stored(last.pre, t, h) # None
            /\ Stored(last.pre, t, h)[1].amount > 0
            /\ Stored(last.pre, t, h)[1].expiry <= now
       /\ \E h \in Accounts :
            /\ Stored(last.pre, t, h) # None
            /\ Stored(last.pre, t, h)[1].amount = 0
            /\ Stored(last.pre, t, h)[1].expiry > now

C6_RemoveDeletesToken ==
  (OwnerCall("remove") /\ last.result = "Ok") =>
    LET L == last.params[1].tokens IN
    /\ \A i \in 1..Len(L) :
         /\ ~has_token(tokens, L[i])
         /\ \A h \in Accounts :
              /\ Stored(tokens, L[i], h) = None
              /\ \A at \in Times :
                   get_account_balance(tokens, L[i], h, at).result = "InvalidTokenId"
              /\ get_account_balance_expiry(tokens, L[i], h).result = "InvalidTokenId"
         /\ get_token_metadata(tokens, L[i]).result = "InvalidTokenId"
    /\ last.events = [i \in 1..Len(L) |->
                        [type |-> "TokenMetadata", token_id |-> L[i],
                         metadata_url |-> [url |-> "", hash |-> << >>]]]

\* a remove of two tokens has succeeded, the first of which held an expired
\* record of positive amount
C6_Witness ==
  /\ OwnerCall("remove") /\ last.result = "Ok"
  /\ LET L == last.params[1].tokens IN
     /\ Len(L) = 2
     /\ \E h \in Accounts :
          /\ Stored(last.pre, L[1], h) # None
          /\ Stored(last.pre, L[1], h)[1].amount > 0

(* C7: a mint entry of the owner whose expiry is not strictly later than   *)
(* the instant of the call (expiry <= now) makes the call fail and         *)
(* installs no balance for the entry; the error is TokenExpired when the   *)
(* call comes to that entry, whether or not its token is registered.       *)

\* the entries of batch P before token t (in key order) are mintable
MintedBefore(P, t) ==
  \A u \in DOMAIN P.tokens :
    (u < t) => (P.tokens[u].expiry > now /\ u \in DOMAIN last.pre)

C7_MintExpiredEntryFails ==
  OwnerCall("mint") =>
    LET P == last.params[1] IN
    \A t \in DOMAIN P.tokens :
      (P.tokens[t].expiry <= now) =>
        /\ last.result # "Ok"
        /\ Stored(tokens, t, P.owner) = Stored(last.pre, t, P.owner)
        /\ MintedBefore(P, t) => last.result = "TokenExpired"

\* a mint has failed with TokenExpired on an entry whose expiry is the
\* instant of the call and whose token is not registered, after an entry
\* that could be minted
C7_Witness ==
  /\ OwnerCall("mint") /\ last.result = "TokenExpired"
  /\ now > 0
  /\ LET P == last.params[1] IN
     /\ DOMAIN P.tokens = {0, 1}
     /\ MintedBefore(P, 1)
     /\ P.tokens[1].expiry = now
     /\ 1 \notin DOMAIN last.pre

(* C8: a mint entry of the owner with expiry > now whose token id is not   *)
(* registered makes the call fail, with InvalidTokenId when the call comes *)
(* to that entry; no mint call creates a token entry: the set of           *)
(* registered tokens is the same after any mint call.                      *)
C8_MintUnregisteredFails ==
  /\ OwnerCall("mint") =>
       LET P == last.params[1] IN
       \A t \in DOMAIN P.tokens :
         (P.tokens[t].expiry > now /\ t \notin DOMAIN last.pre) =>
           /\ last.result # "Ok"
           /\ MintedBefore(P, t) => last.result = "InvalidTokenId"
  /\ Returns("mint") => DOMAIN tokens = DOMAIN last.pre

\* a mint has failed with InvalidTokenId on an unregistered token while
\* another token is registered
C8_Witness ==
  /\ OwnerCall("mint") /\ last.result = "InvalidTokenId"
  /\ DOMAIN last.pre # {}
  /\ \E t \in DOMAIN last.params[1].tokens :
       /\ t \notin DOMAIN last.pre
       /\ last.params[1].tokens[t].expiry > now

(* C9: when a successful mint replaces a record of (T, H) whose effective  *)
(* amount at the instant of the call is > 0, one Burn event of (T, H) with *)
(* exactly that amount is logged immediately before the Mint event of the  *)
(* new amount; when the prior record is expired at the call, or there is   *)
(* none, no Burn event is logged for the entry.                            *)
C9_BurnBeforeMint ==
  (OwnerCall("mint") /\ last.result = "Ok") =>
    LET P == last.params[1]
        ev == last.events
    IN \A t \in DOMAIN P.tokens :
         LET prior == Effective(last.pre, t, P.owner, now)
             burns == {i \in 1..Len(ev) : ev[i].type = "Burn" /\ ev[i].token_id = t}
         IN IF prior > 0
            THEN \E i \in 1..(Len(ev) - 1) :
                   /\ burns = {i}
                   /\ ev[i] = [type |-> "Burn", token_id |-> t,
                               owner |-> Account(P.owner), amount |-> prior]
                   /\ ev[i + 1] = [type |-> "Mint", token_id |-> t,
                                   owner |-> Account(P.owner),
                                   amount |-> P.tokens[t].amount]
            ELSE burns = {}

\* a mint of two tokens has succeeded where the holder had an active record
\* of positive amount under one token and an expired record of positive
\* amount under the other
C9_Witness ==
  /\ OwnerCall("mint") /\ last.result = "Ok"
  /\ LET P == last.params[1] IN
     \E t, u \in DOMAIN P.tokens :
       /\ Effective(last.pre, t, P.owner, now) > 0
       /\ P.tokens[t].amount = 0
       /\ Stored(last.pre, u, P.owner) # None
       /\ Stored(last.pre, u, P.owner)[1].amount > 0
       /\ Stored(last.pre, u, P.owner)[1].expiry <= now

(* C10: an add by the owner that lists a token id that already exists      *)
(* (registered before the call, or listed earlier in the same call) fails  *)
(* with InvalidTokenId, and the existing entry is not overwritten: its     *)
(* metadata and balance records are as they were.                          *)
C10_AddExistingFails ==
  OwnerCall("add") =>
    LET L == last.params[1].tokens IN
    /\ (\E i \in 1..Len(L) :
          \/ L[i].token_id \in DOMAIN last.pre
          \/ \E j \in 1..(i - 1) : L[j].token_id = L[i].token_id)
         => last.result = "InvalidTokenId"
    /\ \A t \in DOMAIN last.pre : t \in DOMAIN tokens /\ tokens[t] = last.pre[t]
    /\ \A i \in 1..Len(L) :
         (/\ L[i].token_id \notin DOMAIN last.pre
          /\ L[i].token_id \in DOMAIN tokens
          /\ \A j \in 1..(i - 1) : L[j].token_id # L[i].token_id) =>
            tokens[L[i].token_id].metadata = L[i].metadata_url

\* an add has failed on a token that was registered with other metadata and
\* holds a balance record
C10_Witness ==
  /\ OwnerCall("add") /\ last.result = "InvalidTokenId"
  /\ \E i \in 1..Len(last.params[1].tokens) :
       LET it == last.params[1].tokens[i] IN
       /\ it.token_id \in DOMAIN last.pre
       /\ last.pre[it.token_id].metadata # it.metadata_url
       /\ DOMAIN last.pre[it.token_id].balances # {}

---------------------------------------------------------------------------
(* C11: a successful add creates, for every listed (token_id, metadata), a *)
(* token entry with no balance record and exactly that metadata, and logs  *)
(* exactly one TokenMetadata event per token in the order of the list;     *)
(* an event is logged after the entry of its token is created, never       *)
(* before: every event in the log, also of a call that fails later, is of  *)
(* a token this call has created.                                          *)
C11_AddCreatesAndLogs ==
  OwnerCall("add") =>
    LET L == last.params[1].tokens
        ev == last.events
    IN /\ (last.result = "Ok") =>
            /\ \A i \in 1..Len(L) :
                 /\ L[i].token_id \in DOMAIN tokens
                 /\ DOMAIN tokens[L[i].token_id].balances = {}
                 /\ tokens[L[i].token_id].metadata = L[i].metadata_url
            /\ Len(ev) = Len(L)
       /\ Len(ev) <= Len(L)
       /\ \A k \in 1..Len(ev) :
            /\ ev[k] = [type |-> "TokenMetadata", token_id |-> L[k].token_id,
                        metadata_url |-> L[k].metadata_url]
            /\ L[k].token_id \notin DOMAIN last.pre
            /\ L[k].token_id \in DOMAIN tokens
            /\ tokens[L[k].token_id].metadata = L[k].metadata_url

\* an add of two tokens with different metadata has succeeded
C11_Witness ==
  /\ OwnerCall("add") /\ last.result = "Ok"
  /\ LET L == last.params[1].tokens IN
     /\ Len(L) = 2
     /\ L[1].token_id = 1 /\ L[2].token_id = 0
     /\ L[1].metadata_url # L[2].metadata_url
     /\ Len(last.events) = 2

(* C12: add, mint and remove called by any sender other than the owner     *)
(* account, also a contract address, fail with Unauthorized, log no event  *)
(* and leave the ledger unchanged; so the ledger changes only in calls of  *)
(* the owner.                                                              *)
C12_OnlyOwnerMutates ==
  /\ (last.op \in {"add", "mint", "remove"} /\ ~ByOwner) =>
       /\ last.result = "Unauthorized"
       /\ last.events = << >>
       /\ tokens = last.pre
  /\ (last.op # "idle" /\ tokens # last.pre) => ByOwner
  /\ (last.op \in {"add", "mint", "remove"} /\ ByOwner) => last.result # "Unauthorized"

\* a remove by a contract address of a registered token without records has
\* been refused
C12_Witness ==
  /\ Returns("remove") /\ last.sender = Some(Contract("K0"))
  /\ last.result = "Unauthorized"
  /\ \E t \in DOMAIN tokens : DOMAIN tokens[t].balances = {}

---------------------------------------------------------------------------
(* C13: a mint call is all-or-nothing: when an entry of the batch fails    *)
(* (TokenExpired or InvalidTokenId) the ledger after the call is the       *)
(* ledger before it; the records of the entries before the failing one are *)
(* not kept.                                                               *)
C13_MintAllOrNothing ==
  (OwnerCall("mint") /\ last.result # "Ok") => tokens = last.pre

(* C14: an add call is all-or-nothing: when an item of the list fails with *)
(* InvalidTokenId none of the tokens of the call is registered afterwards, *)
(* the ledger is the one before the call.                                  *)
C14_AddAllOrNothing ==
  (OwnerCall("add") /\ last.result # "Ok") => tokens = last.pre

(* C15: a remove call is all-or-nothing: when a listed token fails         *)
(* (InvalidTokenId or TokenHasValidBalances) the tokens listed before it   *)
(* are still registered with all their records, the ledger is the one      *)
(* before the call.                                                        *)
C15_RemoveAllOrNothing ==
  (OwnerCall("remove") /\ last.result # "Ok") => tokens = last.pre

---------------------------------------------------------------------------
\* the token ids of the Mint events of a call, in log order
RECURSIVE MintIds(_)
MintIds(ev) ==
  IF ev = << >> THEN << >>
  ELSE IF Head(ev).type = "Mint" THEN << Head(ev).token_id >> \o MintIds(Tail(ev))
       ELSE MintIds(Tail(ev))

IsPrefix(s, t) == Len(s) <= Len(t) /\ \A i \in 1..Len(s) : s[i] = t[i]

\* the error an entry of a mint batch meets on ledger st at time t, "Ok" if none
EntryError(st, t, token_id, mint_param) ==
  IF mint_param.expiry <= t THEN "TokenExpired"
  ELSE IF token_id \notin DOMAIN st THEN "InvalidTokenId"
  ELSE "Ok"

\* the error of the first failing pair of the list, "Ok" if none fails
RECURSIVE FirstError(_, _, _)
FirstError(st, t, items) ==
  IF items = << >> THEN "Ok"
  ELSE LET e == EntryError(st, t, Head(items)[1], Head(items)[2])
       IN IF e # "Ok" THEN e ELSE FirstError(st, t, Tail(items))

\* the pairs of the request that count (the last one written for each token
\* id), listed by ascending token id
RECURSIVE ByTokenId(_, _)
ByTokenId(request, ids) ==
  IF ids = {} THEN << >>
  ELSE LET t == CHOOSE x \in ids : \A y \in ids : x <= y
           i == CHOOSE j \in 1..Len(request) :
                  /\ request[j][1] = t
                  /\ \A k \in (j+1)..Len(request) : request[k][1] # t
       IN << request[i] >> \o ByTokenId(request, ids \ {t})

RequestIds(request) == {request[i][1] : i \in 1..Len(request)}

MintRequestReturned == last.op = "mint" /\ "request" \in DOMAIN last

---------------------------------------------------------------------------
\* the queries of the returned call and, for each, the error it meets by
\* itself on the ledger ("Ok" if none)
Queries == last.params[1].queries

QueryError(i) ==
  IF last.op = "tokenMetadata"
  THEN IF Queries[i] \in DOMAIN tokens THEN "Ok" ELSE "InvalidTokenId"
  ELSE IF Queries[i].address.kind # "Account" THEN "AccountsOnly"
       ELSE IF Queries[i].token_id \in DOMAIN tokens THEN "Ok" ELSE "InvalidTokenId"

\* the answer of a query that meets no error
QueryAnswer(i) ==
  IF last.op = "tokenMetadata" THEN tokens[Queries[i]].metadata
  ELSE IF last.op = "balanceOf"
       THEN BalanceExpected(tokens, Queries[i].token_id, Queries[i].address.id, now)
       ELSE ExpiryExpected(tokens, Queries[i].token_id, Queries[i].address.id)

QueryReturned == last.op \in {"balanceOf", "expiryOf", "tokenMetadata"}

(* C17: a batch query (balanceOf, expiryOf, tokenMetadata) returns either  *)
(* one result per sub-query, in query order, or a single error and no      *)
(* partial result; the error is that of the first failing sub-query in     *)
(* list order.                                                             *)
C17_BatchQueryFirstError ==
  QueryReturned =>
    LET failing == {i \in 1..Len(Queries) : QueryError(i) # "Ok"}
    IN /\ (failing = {}) =>
            /\ last.result = "Ok"
            /\ Len(last.response) = Len(Queries)
            /\ \A i \in 1..Len(Queries) : last.response[i] = QueryAnswer(i)
       /\ (failing # {}) =>
            LET first == CHOOSE i \in failing : \A j \in failing : i <= j
            IN /\ last.result = QueryError(first)
               /\ last.response = << >>

\* an unregistered token queried before a contract-address holder:
\* InvalidTokenId, no partial result
C17_Witness ==
  /\ Returns("balanceOf")
  /\ Len(Queries) = 2
  /\ Queries[1].address.kind = "Account"
  /\ Queries[1].token_id \notin DOMAIN tokens
  /\ Queries[2].address.kind = "Contract"
  /\ last.result = "InvalidTokenId"
  /\ last.response = << >>

(* C18: a balanceOf or expiryOf sub-query whose holder is a contract       *)
(* address fails with AccountsOnly, whether or not the queried token id is *)
(* registered.                                                             *)
C18_ContractHolderAccountsOnly ==
  /\ Returns("idle") => \A t \in TokenIds, c \in Contracts :
       LET q == [token_id |-> t, address |-> Contract(c)]
       IN /\ balance_of_query(tokens, q, now).result = "AccountsOnly"
          /\ expiry_of_query(tokens, q).result = "AccountsOnly"
  /\ (last.op \in {"balanceOf", "expiryOf"}) =>
       \A i \in 1..Len(Queries) :
         (Queries[i].address.kind = "Contract") =>
           /\ last.result # "Ok"
           /\ QueriesFineBefore(Queries, i) => last.result = "AccountsOnly"

\* a contract-address holder queried for an unregistered token, after a
\* query that succeeded: AccountsOnly
C18_Witness ==
  /\ Returns("balanceOf")
  /\ Len(Queries) = 2
  /\ QueriesFineBefore(Queries, 2)
  /\ Queries[2].address.kind = "Contract"
  /\ Queries[2].token_id \notin DOMAIN tokens
  /\ last.result = "AccountsOnly"

---------------------------------------------------------------------------
(* C19: metadataOf(T) fails with InvalidTokenId iff T is not registered,   *)
(* and for a registered T it returns the metadata given by the add that    *)
(* registered it: a call of add, mint or remove that leaves T registered   *)
(* leaves its metadata as it was, and a token that a call registers has    *)
(* the metadata of the item of that add call that names it first.          *)
C19_MetadataFixedWhileRegistered ==
  /\ Returns("idle") => \A t \in TokenIds :
       LET r == get_token_metadata(tokens, t)
       IN /\ (r.result = "InvalidTokenId") <=> (t \notin DOMAIN tokens)
          /\ (r.result # "InvalidTokenId") => r.result = "Ok"
  /\ (last.op \in {"add", "mint", "remove"}) => \A t \in DOMAIN tokens :
       LET r == get_token_metadata(tokens, t)
       IN /\ r.result = "Ok"
          /\ (t \in DOMAIN last.pre) => r = get_token_metadata(last.pre, t)
          /\ (t \notin DOMAIN last.pre) =>
               /\ OwnerCall("add")
               /\ \E i \in 1..Len(last.params[1].tokens) :
                    /\ last.params[1].tokens[i].token_id = t
                    /\ \A j \in 1..(i - 1) : last.params[1].tokens[j].token_id # t
                    /\ r.value = last.params[1].tokens[i].metadata_url

\* an add call names a registered token with other metadata: the call fails
\* and the token keeps the metadata it was registered with
C19_Witness ==
  /\ OwnerCall("add")
  /\ last.result = "InvalidTokenId"
  /\ \E i \in 1..Len(last.params[1].tokens) :
       LET item == last.params[1].tokens[i]
       IN /\ item.token_id \in DOMAIN last.pre
          /\ item.metadata_url # last.pre[item.token_id].metadata
          /\ get_token_metadata(tokens, item.token_id)
               = [result |-> "Ok", value |-> last.pre[item.token_id].metadata]

(* C20: a token id exists in the ledger iff a successful add registered it *)
(* and no successful remove has removed it since: starting from the empty  *)
(* ledger, the set of registered token ids changes only in an add call that *)
(* succeeds (by the ids it lists, all new) or in a remove call that        *)
(* succeeds (by the ids it lists); mint and failed calls leave it alone.   *)
C20_ExistsIffAddedNotRemoved ==
  /\ (last.op # "idle" /\ DOMAIN tokens # DOMAIN last.pre) =>
       /\ last.result = "Ok"
       /\ OwnerCall("add") \/ OwnerCall("remove")
  /\ (OwnerCall("add") /\ last.result = "Ok") =>
       DOMAIN tokens = DOMAIN last.pre
                         \cup {last.params[1].tokens[i].token_id :
                                 i \in 1..Len(last.params[1].tokens)}
  /\ (OwnerCall("remove") /\ last.result = "Ok") =>
       DOMAIN tokens = DOMAIN last.pre
                         \ {last.params[1].tokens[i] : i \in 1..Len(last.params[1].tokens)}

---------------------------------------------------------------------------
\* the token ids a returned remove call lists
RemoveIds == {last.params[1].tokens[i] : i \in 1..Len(last.params[1].tokens)}

(* C21: lazy expiry: a stored record (a, e) of (T, H) is never changed or  *)
(* deleted implicitly: across every call it stays (a, e) unless the call   *)
(* is a successful mint for H that names T or a successful remove that     *)
(* lists T.                                                                *)
C21_RecordKeptUntilMintOrRemove ==
  (last.op # "idle") =>
    \A t \in DOMAIN last.pre : \A h \in DOMAIN last.pre[t].balances :
      \/ Stored(tokens, t, h) = Stored(last.pre, t, h)
      \/ /\ OwnerCall("mint") /\ last.result = "Ok"
         /\ last.params[1].owner = h
         /\ t \in DOMAIN last.params[1].tokens
      \/ /\ OwnerCall("remove") /\ last.result = "Ok"
         /\ t \in RemoveIds

(* C22 as stated: a token entry is destroyed by remove only when no        *)
(* balance record in its map is active, a record being active iff its      *)
(* expiry is strictly later than the instant of the call: every record     *)
(* stored under a token that a remove deletes has expiry <= now.           *)
C22_RemovedRecordsExpired ==
  OwnerCall("remove") =>
    \A t \in DOMAIN last.pre \ DOMAIN tokens : \A h \in DOMAIN last.pre[t].balances :
      last.pre[t].balances[h].expiry <= now

(* C22 amended: a token entry is destroyed by remove only when no balance  *)
(* record in its map is active, a record being active iff its amount is    *)
(* positive and its expiry is strictly later than the instant of the call: *)
(* every record stored under a token that a remove deletes has expiry      *)
(* <= now or amount 0.                                                     *)
C22_RemovedRecordsInactive ==
  OwnerCall("remove") =>
    \A t \in DOMAIN last.pre \ DOMAIN tokens : \A h \in DOMAIN last.pre[t].balances :
      \/ last.pre[t].balances[h].expiry <= now
      \/ last.pre[t].balances[h].amount = 0

\* a remove has succeeded on a token one of whose holders has a record of
\* amount zero that expires after the call, another an expired record
C22_Witness ==
  /\ OwnerCall("remove") /\ last.result = "Ok"
  /\ \E t \in DOMAIN last.pre \ DOMAIN tokens :
       /\ t \in RemoveIds
       /\ \E h \in DOMAIN last.pre[t].balances :
            /\ last.pre[t].balances[h].amount = 0
            /\ last.pre[t].balances[h].expiry > now
       /\ \E h \in DOMAIN last.pre[t].balances :
            /\ last.pre[t].balances[h].amount > 0
            /\ last.pre[t].balances[h].expiry <= now

\* the Mint events of a call, in log order
MintsOf(ev) == SelectSeq(ev, LAMBDA e : e.type = "Mint")

(* C23: every mint entry that is processed logs exactly one Mint event     *)
(* with the token id, the owner and the requested amount, also when that   *)
(* amount is zero; an entry is refused only for expiry <= now (or an       *)
(* unregistered token), never for its amount.                              *)
C23_OneMintEventPerEntry ==
  OwnerCall("mint") =>
    LET P == last.params[1]
        ids == SortedKeys(DOMAIN P.tokens)
        mints == MintsOf(last.events)
    IN /\ Len(mints) <= Len(ids)
       /\ \A i \in 1..Len(mints) :
            mints[i] = [type |-> "Mint", token_id |-> ids[i],
                        owner |-> Account(P.owner), amount |-> P.tokens[ids[i]].amount]
       /\ (last.result = "Ok") <=>
            \A t \in DOMAIN P.tokens : P.tokens[t].expiry > now /\ t \in DOMAIN last.pre
       /\ (last.result = "Ok") => Len(mints) = Len(ids)
       /\ (last.result # "Ok") =>
            LET t == ids[Len(mints) + 1]
            IN P.tokens[t].expiry <= now \/ t \notin DOMAIN last.pre

\* a mint of two entries has succeeded, one of amount zero and one of
\* positive amount, and logged a Mint event of amount zero
C23_Witness ==
  /\ OwnerCall("mint") /\ last.result = "Ok"
  /\ Cardinality(DOMAIN last.params[1].tokens) = 2
  /\ \E t, u \in DOMAIN last.params[1].tokens :
       /\ last.params[1].tokens[t].amount = 0
       /\ last.params[1].tokens[u].amount > 0
  /\ \E i \in 1..Len(last.events) :
       last.events[i].type = "Mint" /\ last.events[i].amount = 0

---------------------------------------------------------------------------
(* C24: transfer and updateOperator fail with Unauthorized for every       *)
(* caller (the owner included), every input and every ledger, and leave    *)
(* the ledger unchanged; operatorOf never fails and returns one false per  *)
(* queried (owner, operator) pair.                                         *)
C24_DisabledEntryPoints ==
  /\ (last.op \in {"transfer", "updateOperator"}) =>
       /\ last.result = "Unauthorized"
       /\ last.events = << >>
       /\ tokens = last.pre
  /\ (last.op = "operatorOf") =>
       /\ last.result = "Ok"
       /\ Len(last.response) = Len(last.params[1].queries)
       /\ \A i \in 1..Len(last.response) : last.response[i] = FALSE
       /\ tokens = last.pre

\* the owner of the contract asks to transfer the amount a holder has an
\* active record of: Unauthorized, the record is where it was
C24_Witness ==
  /\ OwnerCall("transfer")
  /\ last.result = "Unauthorized"
  /\ Len(last.params[1]) = 1
  /\ LET t == last.params[1][1]
     IN /\ t.amount > 0
        /\ t.from # t.to
        /\ Effective(tokens, t.token_id, t.from, now) = t.amount
        /\ Stored(tokens, t.token_id, t.to) = None

---------------------------------------------------------------------------
\* what the call just made in a flow has answered
Answer == [result |-> last.result, response |-> last.response]
Ok(response) == [result |-> "Ok", response |-> response]
Err(e) == [result |-> e, response |-> << >>]

InFlow(name) == "flow" \in DOMAIN last /\ last.flow.name = name

(* C25: from the empty ledger, add T with metadata M, then mint 100 to A   *)
(* with expiry 100 at instant 50: at instant 50 balanceOf(T, A) = 100 and  *)
(* expiryOf(T, A) = Some(100); at instant 150 balanceOf(T, A) = 0 while    *)
(* expiryOf(T, A) = Some(100); remove T at instant 150 succeeds;           *)
(* afterwards balanceOf, expiryOf and metadataOf for T fail with           *)
(* InvalidTokenId.                                                         *)
C25_CompleteFlow ==
  InFlow("complete") =>
    Answer = << Ok(<< >>), Ok(<< >>),
                Ok(<< 100 >>), Ok(<< Some(100) >>),
                Ok(<< 0 >>), Ok(<< Some(100) >>),
                Ok(<< >>),
                Err("InvalidTokenId"), Err("InvalidTokenId"), Err("InvalidTokenId")
             >>[last.flow.done]

\* the flow has been run to its last query
C25_Witness ==
  /\ InFlow("complete")
  /\ last.flow.done = 10
  /\ last.op = "tokenMetadata"
  /\ last.result = "InvalidTokenId"
  /\ now = 150
  /\ tokens = empty

(* C26: on a registered token, mint amount 10 with expiry 100 to A at      *)
(* instant 50, then mint amount 20 with expiry 200 to A at instant 60: the *)
(* second call logs exactly two events, a Burn of amount 10 followed by a  *)
(* Mint of amount 20, and balanceOf(T, A) at instant 150 returns 20.       *)
C26_RemintFlow ==
  InFlow("remint") =>
    /\ Answer = << Ok(<< >>), Ok(<< >>), Ok(<< >>), Ok(<< 20 >>) >>[last.flow.done]
    /\ (last.flow.done = 3) =>
         last.events = << [type |-> "Burn", token_id |-> last.flow.T,
                           owner |-> Account(last.flow.H), amount |-> 10],
                          [type |-> "Mint", token_id |-> last.flow.T,
                           owner |-> Account(last.flow.H), amount |-> 20] >>

\* the second mint has been made and the balance read after the first
\* expiry
C26_Witness ==
  /\ InFlow("remint")
  /\ last.flow.done = 4
  /\ last.op = "balanceOf"
  /\ last.response = << 20 >>
  /\ now = 150
  /\ Stored(tokens, last.flow.T, last.flow.H) = Some([amount |-> 20, expiry |-> 200])

---------------------------------------------------------------------------
(* C27: the remove entry point does not fail when a listed token does not  *)
(* exist: the entry is skipped silently, so a remove that lists only       *)
(* unregistered tokens succeeds and leaves the ledger as it was.           *)
C27_RemoveMissingIsNoOp ==
  (OwnerCall("remove") /\ RemoveIds \cap DOMAIN last.pre = {}) =>
    /\ last.result = "Ok"
    /\ tokens = last.pre

(* C28: re-registration starts fresh: when token T is removed and later    *)
(* registered again by add, possibly with other metadata, then for every   *)
(* holder balanceOf(T, H) = 0 and expiryOf(T, H) = None until a new mint:  *)
(* no record that existed under T before the removal, expired or not,      *)
(* reappears, and metadataOf(T) returns the new metadata.                  *)
C28_ReregisterFlow ==
  InFlow("reregister") =>
    /\ Answer = << Ok(<< >>), Ok(<< >>),
                   Ok(<< Some(last.flow.record.expiry) >>),
                   Ok(<< >>), Ok(<< >>),
                   Ok(<< 0, 0 >>), Ok(<< None, None >>),
                   Ok(<< last.flow.M2 >>) >>[last.flow.done]
    /\ (last.flow.done >= 5) =>
         tokens = (last.flow.T :> [balances |-> EmptyMap, metadata |-> last.flow.M2])

\* a token whose holder had an unexpired record of amount zero has been
\* removed and registered again with other metadata, and its expiry read
C28_Witness ==
  /\ InFlow("reregister")
  /\ last.flow.done = 7
  /\ last.op = "expiryOf"
  /\ last.flow.record.expiry > now
  /\ last.flow.M2 # last.flow.M
  /\ last.response = << None, None >>

---------------------------------------------------------------------------
\* the expiries of the records of positive amount stored under t in st
NonzeroExpiries(st, t) ==
  {st[t].balances[h].expiry : h \in {a \in DOMAIN st[t].balances : st[t].balances[a].amount > 0}}

(* C29: removal becomes possible: from the first instant that is >= the    *)
(* greatest stored expiry of the records of positive amount of a           *)
(* registered token T, a remove by the owner that lists only T succeeds;   *)
(* a remove that failed with TokenHasValidBalances has changed nothing and *)
(* succeeds when it is submitted again at such a later instant.            *)
C29_RemovalBecomesPossible ==
  (OwnerCall("remove") /\ Len(last.params[1].tokens) = 1) =>
    LET T == last.params[1].tokens[1]
    IN (T \in DOMAIN last.pre) =>
         /\ (\A e \in NonzeroExpiries(last.pre, T) : now >= e) =>
              (last.result = "Ok" /\ T \notin DOMAIN tokens)
         /\ (last.result = "TokenHasValidBalances") =>
              /\ tokens = last.pre
              /\ \E e \in NonzeroExpiries(last.pre, T) : now < e
              /\ \A later \in Times :
                   (\A e \in NonzeroExpiries(tokens, T) : later >= e) =>
                     /\ later > now
                     /\ remove([sender |-> Account(Owner), owner |-> Owner,
                                slot_time |-> later], tokens, last.params[1]).result = "Ok"

\* time has advanced to the expiry of the only record of positive amount
\* of a token, and the remove of that token has succeeded
C29_Witness ==
  /\ OwnerCall("remove") /\ last.result = "Ok"
  /\ Len(last.params[1].tokens) = 1
  /\ now > 0
  /\ LET T == last.params[1].tokens[1]
     IN /\ T \in DOMAIN last.pre
        /\ NonzeroExpiries(last.pre, T) = {now}

(* C30: frame of the mutating calls: a successful mint for holder H over   *)
(* tokens S changes only the records (T, H) with T in S, every other       *)
(* record and all metadata stay; a successful remove of tokens S leaves    *)
(* every token outside S as it was; a successful add leaves every token    *)
(* registered before as it was.                                            *)
C30_Frame ==
  /\ (OwnerCall("mint") /\ last.result = "Ok") =>
       /\ DOMAIN tokens = DOMAIN last.pre
       /\ \A t \in DOMAIN last.pre :
            /\ tokens[t].metadata = last.pre[t].metadata
            /\ \A h \in Accounts :
                 (t \notin DOMAIN last.params[1].tokens \/ h # last.params[1].owner) =>
                   Stored(tokens, t, h) = Stored(last.pre, t, h)
  /\ (OwnerCall("remove") /\ last.result = "Ok") =>
       \A t \in DOMAIN last.pre \ RemoveIds :
         t \in DOMAIN tokens /\ tokens[t] = last.pre[t]
  /\ (OwnerCall("add") /\ last.result = "Ok") =>
       \A t \in DOMAIN last.pre :
         t \in DOMAIN tokens /\ tokens[t] = last.pre[t]

\* a mint for one holder on one token has succeeded while the other holder
\* had a record under that token and the holder one under the other token
C30_Witness ==
  /\ OwnerCall("mint") /\ last.result = "Ok"
  /\ \E t \in DOMAIN last.params[1].tokens, u \in DOMAIN last.pre, h \in Accounts :
       /\ u \notin DOMAIN last.params[1].tokens
       /\ h # last.params[1].owner
       /\ Stored(last.pre, t, h) # None
       /\ Stored(last.pre, u, last.params[1].owner) # None
       /\ Stored(last.pre, t, last.params[1].owner)
            # Some(last.params[1].tokens[t])

---------------------------------------------------------------------------
\* the least element of a non-empty set of positions
First(S) == CHOOSE i \in S : \A j \in S : i <= j

\* position i of list L repeats an earlier item
Repeated(L, i) == \E j \in 1..(i - 1) : L[j] = L[i]

---------------------------------------------------------------------------
\* the context of a call by the owner at instant t
OwnerCtx(t) == [sender |-> Account(Owner), owner |-> Owner, slot_time |-> t]

(* C32: expiry > now is the comparison of mint, balanceOf and remove       *)
(* alike, so a minted record is never born inactive: right after a         *)
(* successful mint of amount a > 0 to (T, H) at instant now,               *)
(* balanceOf(T, H, now) = a and a remove of T by the owner at the same     *)
(* instant fails with TokenHasValidBalances; at the instant of the expiry  *)
(* the record yields balance 0 and no longer blocks the removal.           *)
C32_MintedRecordActive ==
  (OwnerCall("mint") /\ last.result = "Ok") =>
    LET P == last.params[1] IN
    \A T \in DOMAIN P.tokens :
      (P.tokens[T].amount > 0) =>
        LET q == [queries |-> << [token_id |-> T, address |-> Account(P.owner)] >>]
            e == P.tokens[T].expiry
            others == \E h \in Accounts \ {P.owner} : Effective(tokens, T, h, e) > 0
        IN /\ balance_of([slot_time |-> now], tokens, q)
                = Outcome(tokens, "Ok", << >>, << P.tokens[T].amount >>)
           /\ remove(OwnerCtx(now), tokens, [tokens |-> << T >>]).result
                = "TokenHasValidBalances"
           /\ e > now
           /\ balance_of([slot_time |-> e], tokens, q)
                = Outcome(tokens, "Ok", << >>, << 0 >>)
           /\ remove(OwnerCtx(e), tokens, [tokens |-> << T >>]).result
                = IF others THEN "TokenHasValidBalances" ELSE "Ok"

\* a record of positive amount has been minted that expires at the next
\* instant, on a token no other holder has a record of
C32_Witness ==
  /\ OwnerCall("mint") /\ last.result = "Ok"
  /\ \E T \in DOMAIN last.params[1].tokens :
       /\ last.params[1].tokens[T].amount > 0
       /\ last.params[1].tokens[T].expiry = now + 1
       /\ DOMAIN tokens[T].balances = {last.params[1].owner}

---------------------------------------------------------------------------
\* the returned call is a successful mint for holder H that names token T
MintedOk(T, H) ==
  /\ OwnerCall("mint") /\ last.result = "Ok"
  /\ last.params[1].owner = H
  /\ T \in DOMAIN last.params[1].tokens

(* C33: with time advancing and no successful mint for (T, H) in between,  *)
(* the effective balance never increases and never comes back: for         *)
(* instants now1 <= now2, with a call made in between that is not a        *)
(* successful mint for (T, H) and leaves T registered, balanceOf(T, H,     *)
(* now2) is balanceOf(T, H, now1) or 0, and it is 0 when balanceOf(T, H,   *)
(* now1) is 0.                                                             *)
C33_BalanceNeverComesBack ==
  (last.op \in {"add", "mint", "remove"}) =>
    \A T \in DOMAIN last.pre \cap DOMAIN tokens : \A H \in Accounts :
      ~MintedOk(T, H) =>
        \A now1 \in 0..now : \A now2 \in now..(MaxTime + 2) :
          LET b1 == get_account_balance(last.pre, T, H, now1).value
              b2 == get_account_balance(tokens, T, H, now2).value
          IN b2 \in {b1, 0} /\ (b1 = 0 => b2 = 0)

---------------------------------------------------------------------------
(* C34: a remove by the owner whose list names the same registered,        *)
(* removable token twice fails with InvalidTokenId at the second           *)
(* occurrence, so the whole call fails and the token is not removed.       *)
C34_RemoveTwiceKeepsToken ==
  OwnerCall("remove") =>
    LET L == last.params[1].tokens IN
    \A j \in 1..Len(L) :
      (Repeated(L, j) /\ RemovedBefore(L, j)) =>
        /\ last.result = "InvalidTokenId"
        /\ L[j] \in DOMAIN tokens

---------------------------------------------------------------------------
(* C35: Burn events are logged only by mint calls that replace a record of *)
(* positive effective amount: a successful remove logs exactly one         *)
(* TokenMetadata event per removed token and never a Burn event, also when *)
(* the deleted records hold positive stored amounts (expired), and add     *)
(* logs no Burn event either.                                              *)
C35_BurnOnlyByMint ==
  (last.op \in {"add", "mint", "remove"}) =>
    /\ \A k \in 1..Len(last.events) :
         (last.events[k].type = "Burn") =>
           /\ OwnerCall("mint")
           /\ last.events[k].token_id \in DOMAIN last.params[1].tokens
           /\ last.events[k].owner = Account(last.params[1].owner)
           /\ last.events[k].amount > 0
           /\ last.events[k].amount
                = Effective(last.pre, last.events[k].token_id, last.params[1].owner, now)
    /\ (OwnerCall("remove") /\ last.result = "Ok") =>
         last.events = [i \in 1..Len(last.params[1].tokens) |->
                          [type |-> "TokenMetadata",
                           token_id |-> last.params[1].tokens[i],
                           metadata_url |-> [url |-> "", hash |-> None]]]

\* two tokens have been removed in one call, one of them with an expired
\* record of positive stored amount: two TokenMetadata events
C35_Witness ==
  /\ OwnerCall("remove") /\ last.result = "Ok"
  /\ Len(last.params[1].tokens) = 2
  /\ Len(last.events) = 2
  /\ \E h \in Accounts :
       LET r == Stored(last.pre, last.params[1].tokens[1], h)
       IN r # None /\ r[1].amount > 0 /\ r[1].expiry <= now

---------------------------------------------------------------------------
(* C36: existence is judged alike by every operation: on every ledger, for *)
(* every token id T and account holder H, has_token(T) holds iff           *)
(* tokenMetadata of T succeeds iff balanceOf(T, H) succeeds iff            *)
(* expiryOf(T, H) succeeds iff an add of T fails with InvalidTokenId iff a *)
(* mint on T with expiry > now succeeds.                                   *)
C36_ExistenceAgreed ==
  Returns("idle") =>
    \A T \in TokenIds :
      LET exists == has_token(tokens, T) IN
      /\ exists <=> (T \in DOMAIN tokens)
      /\ exists <=> (token_metadata([slot_time |-> now], tokens,
                                   [queries |-> << T >>]).result = "Ok")
      /\ \A H \in Accounts :
           LET q == [queries |-> << [token_id |-> T, address |-> Account(H)] >>] IN
           /\ exists <=> (balance_of([slot_time |-> now], tokens, q).result = "Ok")
           /\ exists <=> (expiry_of([slot_time |-> now], tokens, q).result = "Ok")
           /\ \A a \in Amounts :
                exists <=> (mint(OwnerCtx(now), tokens,
                                 [owner |-> H,
                                  tokens |-> (T :> [amount |-> a, expiry |-> now + 1])]).result
                              = "Ok")
      /\ \A M \in Metadatas :
           LET r == add(OwnerCtx(now), tokens,
                        [tokens |-> << [token_id |-> T, metadata_url |-> M] >>]).result
           IN /\ exists <=> (r = "InvalidTokenId")
              /\ ~exists <=> (r = "Ok")

\* a ledger between two calls where one token is registered with a record
\* that has expired and the other token is not registered
C36_Witness ==
  /\ Returns("idle")
  /\ \E T, U \in TokenIds :
       /\ has_token(tokens, T)
       /\ ~has_token(tokens, U)
       /\ \E H \in Accounts :
            /\ Stored(tokens, T, H) # None
            /\ Stored(tokens, T, H)[1].expiry <= now

---------------------------------------------------------------------------
(* C37: balanceOf, expiryOf, tokenMetadata and operatorOf are read-only:   *)
(* whether they succeed or fail, the ledger (token set, metadata, every    *)
(* stored amount and expiry) is as before the call and no event is logged; *)
(* balanceOf on an expired record does not erase or zero the record.       *)
C37_QueriesReadOnly ==
  (last.op \in {"balanceOf", "expiryOf", "tokenMetadata", "operatorOf"}) =>
    /\ tokens = last.pre
    /\ last.events = << >>

\* balanceOf has answered 0 for an expired record of positive amount, in a
\* call that failed at a later query, and the record is stored as before
C37_Witness ==
  /\ Returns("balanceOf")
  /\ last.result # "Ok"
  /\ Len(last.params[1].queries) = 2
  /\ LET q == last.params[1].queries[1]
         r == Stored(tokens, q.token_id, q.address.id)
     IN /\ q.address.kind = "Account"
        /\ r # None
        /\ r[1].amount > 0
        /\ r[1].expiry <= now
        /\ r = Stored(last.pre, q.token_id, q.address.id)

=============================================================================
